---- MODULE Spec2Model ----
(***************************************************************************)
(* Steam review pipeline: the incremental fetch (Get-SteamGames.py), the   *)
(* consolidation of a day's batch into the cumulative store                *)
(* (combine_reviews_to_jsonl.py) and the readers of that store             *)
(* (convert_jsonl_to_csv.py, sentiment_analysis_vader.py).                 *)
(*                                                                         *)
(* Conventions                                                             *)
(*   - An optional value (Python None or a value) is a sequence of length  *)
(*     0 or 1: None == <<>>, Some(x) == <<x>>.                             *)
(*   - A dict is a function whose DOMAIN is its key set.                   *)
(*   - A file is a record [exists, ...content...]; a file that does not    *)
(*     exist has empty content.                                            *)
(*   - A review is a record; timestamp_created is epoch seconds (>= 1) and *)
(*     review is the free-text body.                                       *)
(***************************************************************************)
EXTENDS Integers, Sequences, FiniteSets, TLC

(***************************************************************************)
(* Bounds of the model                                                     *)
(***************************************************************************)
\* largest timestamp_created the review source hands out
MaxTs == 2
\* largest number of reviews in one page (num_per_page=100 in the URL)
MaxPage == 2
\* largest max_reviews a direct call of get_game_reviews is given
MaxCap == 2
\* max_reviews the run loop passes (6000 in the source), scaled down
RunCap == 1
\* the store is not consolidated beyond this many reviews per title
MaxStoreLen == 2
\* most reviews per title of a store that consolidation starts from
MaxStored == 1
\* largest number of lines of a store handed to the readers
MaxLines == 2

\* the appids of the catalog (steam_app_list.json)
Titles == {10, 20}

None == <<>>
Some(x) == <<x>>

\* str(game_appid): the key of the watermark map
Str(n) == CASE n = 10 -> "10" [] n = 20 -> "20" [] OTHER -> "?"

\* Python truthiness of an optional integer: None and 0 are falsy
Truthy(opt) == opt # None /\ opt[1] # 0

\* `x or 0` for an optional integer x
OrZero(opt) == IF Truthy(opt) THEN opt[1] ELSE 0

\* dict.get(key, None)
Get(dict, key) == IF key \in DOMAIN dict THEN Some(dict[key]) ELSE None

\* dict[key] = value
Put(dict, key, value) ==
  [k \in DOMAIN dict \cup {key} |-> IF k = key THEN value ELSE dict[k]]

\* a slip: the maximum so far is dropped
Max2_second(a, b) == b

\* max(a, b)
Max2(a, b) == IF a >= b THEN a ELSE b

\* max(review['timestamp_created'] for review in reviews), reviews non-empty
MaxCreated(reviews) ==
  CHOOSE m \in {reviews[i].timestamp_created : i \in DOMAIN reviews} :
    \A i \in DOMAIN reviews : reviews[i].timestamp_created <= m

\* a slip: the result is not truncated
Take_all(list, n) == list

\* list[:n] for n >= 0
Take(list, n) == SubSeq(list, 1, IF Len(list) < n THEN Len(list) ELSE n)

\* [r for r in reviews if r['timestamp_created'] > last]
RECURSIVE NewerThan(_, _)
NewerThan(reviews, last) ==
  IF reviews = <<>> THEN <<>>
  ELSE LET rest == NewerThan(Tail(reviews), last)
       IN IF Head(reviews).timestamp_created > last
          THEN <<Head(reviews)>> \o rest ELSE rest

(***************************************************************************)
(* The review source                                                       *)
(***************************************************************************)
\* reviews the source can hand out
Reviews == {[timestamp_created |-> t, review |-> "good"] : t \in 1..MaxTs}

\* bodies found in a store given to the readers ("" is skipped by the
\* sentiment analysis)
StoredReviews == {[timestamp_created |-> 1, review |-> b] : b \in {"", "good"}}

SeqsUpTo(S, n) == UNION {[1..k -> S] : k \in 0..n}

\* the 'reviews' array of one page
Pages == SeqsUpTo(Reviews, MaxPage)

\* the cursor of a response: missing/empty, the sentinel, or a next-page token
Cursors == {"", "*", "c"}

NoData == [success |-> FALSE, reviews |-> <<>>, cursor |-> ""]

\* a decoded page response (r.json()): a page of reviews with the next cursor,
\* or the report of a failure (no 'success', no reviews, no cursor)
Responses == [success : {TRUE}, reviews : Pages, cursor : Cursors] \cup {NoData}

VARIABLES
  \* the run (module level of Get-SteamGames.py)
  running, pc, games, gi, last_timestamps, new_timestamps, reviews_data,
  \* the frame of get_game_reviews
  fpc, max_reviews, last_timestamp, all_reviews, cursor, max_timestamp,
  data, requests, ret,
  \* files
  ts_file, batch_file, store_file, csv_file,
  \* what the last operation printed / how it ended
  report,
  \* the list analyze_reviews returns
  processed_reviews,
  \* history: the reviews get_game_reviews has returned to a run, as
  \* <<appid, review>> pairs
  returned,
  \* the reviews of the title at the source, in the order the source lists them
  source,
  \* get_sentiment_label: its argument and its result
  compound, sentiment_label,
  \* the word-frequency scripts: which one runs, its min_frequency, the rows of
  \* reviews_with_sentiment.csv read so far, the row of the current iteration,
  \* the two statistics dicts, and the rows of the csv written
  mode, min_frequency, rows_done, row, word_stats, word_game_stats, word_df

run_vars == <<running, pc, games, gi, last_timestamps, new_timestamps,
              reviews_data>>
fetch_vars == <<fpc, max_reviews, last_timestamp, all_reviews, cursor,
                max_timestamp, data, requests, ret>>
file_vars == <<ts_file, batch_file, store_file, csv_file>>
label_vars == <<compound, sentiment_label>>
word_vars == <<mode, min_frequency, rows_done, row, word_stats,
               word_game_stats, word_df>>
ext_vars == <<source, label_vars, word_vars>>
vars == <<run_vars, fetch_vars, file_vars, report, processed_reviews,
          returned, ext_vars>>

\* a row of reviews_with_sentiment.csv before any is read
NoRow == [appid |-> 0, review |-> <<>>, sentiment_compound |-> 0,
          sentiment_label |-> "neutral"]

\* nothing of the source, of the labelling or of the word-frequency scripts
\* is in play
NoSource == source = <<>>

NoLabel ==
  /\ compound = 0
  /\ sentiment_label = ""

NoWords ==
  /\ mode = "none"
  /\ min_frequency = 0
  /\ rows_done = 0
  /\ row = NoRow
  /\ word_stats = <<>>
  /\ word_game_stats = <<>>
  /\ word_df = <<>>

InitExt == NoSource /\ NoLabel /\ NoWords

NoRet == [reviews |-> <<>>, max_timestamp |-> 0]

(***************************************************************************)
(* get_game_reviews                                                        *)
(***************************************************************************)
\* no call of get_game_reviews is active
NoFrame(state) ==
  /\ fpc' = state
  /\ max_reviews' = 0
  /\ last_timestamp' = None
  /\ all_reviews' = <<>>
  /\ cursor' = "*"
  /\ max_timestamp' = 0
  /\ data' = NoData
  /\ requests' = 0
  /\ ret' = NoRet

\* entry of get_game_reviews(appid, token, max_reviews=cap, last_timestamp=last)
FetchEntry(cap, last) ==
  /\ fpc' = "loop"
  /\ max_reviews' = cap
  /\ last_timestamp' = last
  /\ all_reviews' = <<>>
  /\ cursor' = "*"
  /\ max_timestamp' = OrZero(last)
  /\ data' = NoData
  /\ requests' = 0
  /\ ret' = NoRet

\* the reviews of a page that the loop accepts
Accepted(resp, last) ==
  IF Truthy(last) THEN NewerThan(resp.reviews, last[1]) ELSE resp.reviews

\* a slip: an empty answer does not stop the loop
BreakNoData_never(resp) == FALSE

\* the first break: the source reports failure or an empty result set
BreakNoData(resp) == ~resp.success \/ resp.reviews = <<>>

\* a slip: an emptied page does not stop the loop
BreakNoNew_never(resp, last) == FALSE

\* the second break: the watermark filter emptied the page
BreakNoNew(resp, last) == Truthy(last) /\ Accepted(resp, last) = <<>>

\* the third break: no next cursor
BreakNoCursor(resp) == resp.cursor = "" \/ resp.cursor = "*"

\* the run has ended: nothing of the process is left
RunOver ==
  /\ running' = FALSE
  /\ pc' = "stopped"
  /\ games' = <<>>
  /\ gi' = 0
  /\ last_timestamps' = <<>>
  /\ new_timestamps' = <<>>
  /\ reviews_data' = <<>>

\* requests.get(url) or r.json() raises: nothing in get_game_reviews or in its
\* caller catches it, the process ends with the traceback
FetchRaise ==
  /\ fpc = "loop"
  /\ Len(all_reviews) < max_reviews
  /\ NoFrame("raised")
  /\ RunOver
  /\ report' = "fetch_traceback"
  /\ UNCHANGED <<file_vars, processed_reviews>>
  /\ UNCHANGED <<returned, ext_vars>>

\* the body of the while loop for the answer resp to its request
LoopBody(resp) ==
  /\ data' = resp
  /\ requests' = requests + 1
  /\ IF BreakNoData(resp) \/ BreakNoNew(resp, last_timestamp)
     THEN /\ fpc' = "done"
          /\ UNCHANGED <<all_reviews, max_timestamp, cursor>>
     ELSE LET reviews == Accepted(resp, last_timestamp)
          IN /\ all_reviews' = all_reviews \o reviews
             /\ max_timestamp' = IF reviews # <<>>
                                  THEN Max2(max_timestamp, MaxCreated(reviews))
                                  ELSE max_timestamp
             /\ cursor' = resp.cursor
             /\ fpc' = IF BreakNoCursor(resp) THEN "done" ELSE "loop"
  /\ UNCHANGED <<max_reviews, last_timestamp, ret>>
  /\ UNCHANGED <<run_vars, file_vars, report, processed_reviews>>
  /\ UNCHANGED <<returned, ext_vars>>

\* one iteration of the while loop whose request is answered
FetchPage ==
  /\ fpc = "loop"
  /\ Len(all_reviews) < max_reviews
  /\ \E resp \in Responses : LoopBody(resp)

\* the value of the return statement
ReturnValue ==
  [reviews |-> Take(all_reviews, max_reviews), max_timestamp |-> max_timestamp]

\* the loop is left (a break, or the cap is reached) and the function returns
FetchReturn ==
  /\ fpc = "done" \/ (fpc = "loop" /\ Len(all_reviews) >= max_reviews)
  /\ ret' = ReturnValue
  /\ fpc' = "returned"
  /\ UNCHANGED <<max_reviews, last_timestamp, all_reviews, cursor,
                 max_timestamp, data, requests>>
  /\ UNCHANGED <<run_vars, file_vars, report, processed_reviews>>
  /\ UNCHANGED <<returned, ext_vars>>

NoFile == [exists |-> FALSE, data |-> <<>>]

\* a direct call of get_game_reviews with any cap and any optional watermark
\* (appid and token only go into the url)
InitCall ==
  /\ running = TRUE
  /\ pc = "fetching"
  /\ games = <<>>
  /\ gi = 0
  /\ last_timestamps = <<>>
  /\ new_timestamps = <<>>
  /\ reviews_data = <<>>
  /\ fpc = "loop"
  /\ max_reviews \in 0..MaxCap
  /\ last_timestamp \in {None} \cup {Some(w) : w \in 0..MaxTs}
  /\ all_reviews = <<>>
  /\ cursor = "*"
  /\ max_timestamp = OrZero(last_timestamp)
  /\ data = NoData
  /\ requests = 0
  /\ ret = NoRet
  /\ ts_file = NoFile
  /\ batch_file = NoFile
  /\ store_file = NoFile
  /\ csv_file = NoFile
  /\ report = ""
  /\ processed_reviews = <<>>
  /\ returned = {}

InitFetch == InitCall /\ InitExt

NextFetch == FetchPage \/ FetchRaise \/ FetchReturn

SpecFetch == InitFetch /\ [][NextFetch]_vars

\* most reviews the source holds for the title
MaxSource == 3

\* what a source that lists newest first holds: timestamp_created never rises
\* along the list
NewestFirst(reviews) ==
  \A i, j \in DOMAIN reviews :
    i < j => reviews[i].timestamp_created >= reviews[j].timestamp_created
Sources == {src \in SeqsUpTo(Reviews, MaxSource) : NewestFirst(src)}

\* the answer of such a source to the request after n earlier ones: the next
\* MaxPage reviews of its list (none when the list is used up) and a cursor
\* for the page after
SourcePage(src, n) ==
  LET first == n * MaxPage + 1
      last == IF first + MaxPage - 1 < Len(src)
              THEN first + MaxPage - 1 ELSE Len(src)
  IN [success |-> TRUE, reviews |-> SubSeq(src, first, last), cursor |-> "c"]

\* one iteration of the while loop, answered by the source from its list
FetchSourcePage ==
  /\ fpc = "loop"
  /\ Len(all_reviews) < max_reviews
  /\ LoopBody(SourcePage(source, requests))

\* a direct call of get_game_reviews against a source that lists newest first
\* and answers every request
InitSource ==
  /\ InitCall
  /\ NoLabel
  /\ NoWords
  /\ source \in Sources

NextSource == FetchSourcePage \/ FetchReturn

SpecSource == InitSource /\ [][NextSource]_vars

(***************************************************************************)
(* combine_reviews_to_jsonl                                                *)
(***************************************************************************)
\* a line of all_reviews.jsonl that json.loads rejects
Malformed == [valid |-> FALSE, appid |-> 0, reviews |-> <<>>]

\* the line json.dump writes for one appid
Line(appid, reviews) == [valid |-> TRUE, appid |-> appid, reviews |-> reviews]

\* the loop over the lines of the existing store: json.loads raises on a
\* malformed line, a later line of an appid replaces an earlier one
RECURSIVE LoadLines(_, _)
LoadLines(lines, dict) ==
  IF lines = <<>> THEN [raised |-> FALSE, dict |-> dict]
  ELSE IF ~Head(lines).valid THEN [raised |-> TRUE, dict |-> dict]
  ELSE LoadLines(Tail(lines), Put(dict, Head(lines).appid, Head(lines).reviews))

\* a slip: a title already in the store starts again from the batch
Extend_replace(old, new) == new

\* a slip: reviews the title already holds are not stored again
Extend_dedupe(old, new) ==
  old \o SelectSeq(new, LAMBDA r : \A i \in DOMAIN old : old[i] # r)

\* consolidated_data[appid]['reviews'].extend(game_data['reviews'])
Extend(old, new) == old \o new

\* the loop over the entries of today's batch; the defaultdict starts an
\* appid it does not hold at an empty list
RECURSIVE Consolidate(_, _)
Consolidate(dict, entries) ==
  IF entries = <<>> THEN dict
  ELSE LET e == Head(entries)
           old == IF e.appid \in DOMAIN dict THEN dict[e.appid] ELSE <<>>
       IN Consolidate(Put(dict, e.appid, Extend(old, e.reviews)), Tail(entries))

\* sorted(consolidated_data.keys())
RECURSIVE SortedKeys(_)
SortedKeys(keys) ==
  IF keys = {} THEN <<>>
  ELSE LET m == CHOOSE x \in keys : \A y \in keys : x <= y
       IN <<m>> \o SortedKeys(keys \ {m})

\* the lines written to all_reviews.jsonl
DumpLines(dict) ==
  LET keys == SortedKeys(DOMAIN dict)
  IN [i \in 1..Len(keys) |-> Line(keys[i], dict[keys[i]])]

\* a slip: the store is rewritten although today's batch is missing
CombineResult_truncates(store, batch) ==
  IF ~batch.exists THEN [report |-> "no_batch", store |-> [exists |-> TRUE, data |-> <<>>]]
  ELSE [report |-> "combined",
        store |-> [exists |-> TRUE,
                   data |-> DumpLines(Consolidate(LoadLines(store.data, <<>>).dict,
                                                  batch.data))]]

\* combine_reviews_to_jsonl(): how it ends and the store it leaves.  Without
\* today's batch it returns early; json.loads raising on a store line ends it
\* before anything is written; with no appid at all, min() of the empty
\* statistics raises after the store is written
CombineResult(store, batch) ==
  IF ~batch.exists THEN [report |-> "no_batch", store |-> store]
  ELSE LET loaded == IF store.exists THEN LoadLines(store.data, <<>>)
                     ELSE [raised |-> FALSE, dict |-> <<>>]
       IN IF loaded.raised
          THEN [report |-> "combine_json_error", store |-> store]
          ELSE LET dict == Consolidate(loaded.dict, batch.data)
               IN [report |-> IF DOMAIN dict = {} THEN "combine_min_error"
                                                 ELSE "combined",
                   store |-> [exists |-> TRUE, data |-> DumpLines(dict)]]

\* the longest review list of a store
WithinStoreBound(store) ==
  \A i \in DOMAIN store.data : Len(store.data[i].reviews) <= MaxStoreLen

(***************************************************************************)
(* convert_jsonl_to_csv                                                    *)
(***************************************************************************)
\* the row of one review (of the 22 columns, those of the modelled fields)
Row(appid, review) ==
  [appid |-> appid, timestamp_created |-> review.timestamp_created,
   review |-> review.review]

\* a slip: one row per title record, that of its first review
RECURSIVE RowsOf_first(_, _)
RowsOf_first(lines, rows) ==
  IF lines = <<>> THEN [raised |-> FALSE, rows |-> rows]
  ELSE IF ~Head(lines).valid THEN [raised |-> TRUE, rows |-> rows]
  ELSE LET l == Head(lines)
       IN RowsOf_first(Tail(lines),
                       rows \o [i \in 1..(IF l.reviews = <<>> THEN 0 ELSE 1) |->
                                  Row(l.appid, l.reviews[i])])

\* the rows written until the lines end or json.loads raises
RECURSIVE RowsOf(_, _)
RowsOf(lines, rows) ==
  IF lines = <<>> THEN [raised |-> FALSE, rows |-> rows]
  ELSE IF ~Head(lines).valid THEN [raised |-> TRUE, rows |-> rows]
  ELSE LET l == Head(lines)
       IN RowsOf(Tail(lines),
                 rows \o [i \in 1..Len(l.reviews) |-> Row(l.appid, l.reviews[i])])

\* convert_jsonl_to_csv(): how it ends and the csv it leaves; the csv is
\* opened for writing before the first line of the store is read
ConvertResult(store, csv) ==
  IF ~store.exists THEN [report |-> "no_input", csv |-> csv]
  ELSE LET r == RowsOf(store.data, <<>>)
       IN [report |-> IF r.raised THEN "convert_json_error" ELSE "converted",
           csv |-> [exists |-> TRUE, data |-> r.rows]]

(***************************************************************************)
(* sentiment_analysis_vader.py                                             *)
(***************************************************************************)
\* the thresholds of get_sentiment_label, in units of 0.0001
PositiveThreshold == 500
NegativeThreshold == 500

\* sia.polarity_scores(text)['compound'] of the bodies of the model, in units
\* of 0.0001 (VADER rounds the compound score to four decimals)
Compound(text) == CASE text = "good" -> 4404 [] OTHER -> 0

\* a slip: a score on a threshold is neutral
get_sentiment_label_strict(compound_score) ==
  IF compound_score > PositiveThreshold THEN "positive"
  ELSE IF compound_score < 0 - NegativeThreshold THEN "negative"
  ELSE "neutral"

\* get_sentiment_label(compound_score)
get_sentiment_label(compound_score) ==
  IF compound_score >= PositiveThreshold THEN "positive"
  ELSE IF compound_score <= 0 - NegativeThreshold THEN "negative"
  ELSE "neutral"

\* review_text.strip() is empty
Blank(text) == text = ""

\* a review with the fields analyze_reviews adds to it
Scored(appid, review) ==
  [appid |-> appid, timestamp_created |-> review.timestamp_created,
   review |-> review.review,
   sentiment_compound |-> Compound(review.review),
   sentiment_label |-> get_sentiment_label(Compound(review.review))]

\* the inner loop: the reviews of one line, those with an empty body skipped
RECURSIVE ScoredReviews(_, _)
ScoredReviews(appid, reviews) ==
  IF reviews = <<>> THEN <<>>
  ELSE LET rest == ScoredReviews(appid, Tail(reviews))
       IN IF Blank(Head(reviews).review) THEN rest
          ELSE <<Scored(appid, Head(reviews))>> \o rest

\* the outer loop: a line json.loads rejects is reported and skipped
RECURSIVE ProcessLines(_)
ProcessLines(lines) ==
  IF lines = <<>> THEN <<>>
  ELSE IF ~Head(lines).valid THEN ProcessLines(Tail(lines))
  ELSE ScoredReviews(Head(lines).appid, Head(lines).reviews)
         \o ProcessLines(Tail(lines))

\* analyze_reviews(input_file, ...): how it ends and the list it returns (and
\* saves)
AnalyzeResult(store, processed) ==
  IF ~store.exists THEN [report |-> "analyze_no_input", processed |-> processed]
  ELSE [report |-> "analyzed", processed |-> ProcessLines(store.data)]

(***************************************************************************)
(* The run: the module level of Get-SteamGames.py                          *)
(***************************************************************************)
\* the app lists steam_app_list.json can hold
Catalogs ==
  {c \in SeqsUpTo(Titles, Cardinality(Titles)) :
     \A i, j \in DOMAIN c : i # j => c[i] # c[j]}

\* the app lists of a catalog that only ever holds one and the same title
SingleCatalogs == {c \in Catalogs : \A i \in DOMAIN c : c[i] = 10}

\* the script starts: the catalog and the watermarks are loaded
StartRun(catalogs) ==
  /\ ~running
  /\ \E catalog \in catalogs : games' = catalog
  /\ running' = TRUE
  /\ pc' = "loop"
  /\ gi' = 0
  /\ last_timestamps' = ts_file.data
  /\ new_timestamps' = <<>>
  /\ reviews_data' = <<>>
  /\ NoFrame("idle")
  /\ report' = ""
  /\ UNCHANGED <<file_vars, processed_reviews>>
  /\ UNCHANGED <<returned, ext_vars>>

\* the first run since the state was set up, over any catalog
RunStartOnce == report = "" /\ StartRun(Catalogs)

\* a run over a catalog of at most the one title
RunStartSingle == StartRun(SingleCatalogs)

\* the loop takes the next game and calls get_game_reviews for it
GameLoopCall ==
  /\ running /\ pc = "loop"
  /\ gi < Len(games)
  /\ FetchEntry(RunCap, Get(last_timestamps, Str(games[gi + 1])))
  /\ pc' = "fetching"
  /\ UNCHANGED <<running, games, gi, last_timestamps, new_timestamps,
                 reviews_data>>
  /\ UNCHANGED <<file_vars, report, processed_reviews>>
  /\ UNCHANGED <<returned, ext_vars>>

\* the loop body after the call: the new watermark and the batch entry
GameLoopStore ==
  /\ running /\ pc = "fetching"
  /\ fpc = "returned"
  /\ new_timestamps' = Put(new_timestamps, Str(games[gi + 1]), ret.max_timestamp)
  /\ reviews_data' = Append(reviews_data,
                            [appid |-> games[gi + 1], reviews |-> ret.reviews])
  /\ gi' = gi + 1
  /\ pc' = "loop"
  /\ NoFrame("idle")
  /\ UNCHANGED <<running, games, last_timestamps>>
  /\ UNCHANGED <<file_vars, report, processed_reviews>>
  /\ returned' = returned \cup
                   {<<games[gi + 1], ret.reviews[i]>> : i \in DOMAIN ret.reviews}
  /\ UNCHANGED ext_vars

\* after the loop: reviews_recent_data_<today>.json is written
WriteBatch ==
  /\ running /\ pc = "loop"
  /\ gi = Len(games)
  /\ batch_file' = [exists |-> TRUE, data |-> reviews_data]
  /\ pc' = "save"
  /\ UNCHANGED <<running, games, gi, last_timestamps, new_timestamps,
                 reviews_data>>
  /\ UNCHANGED <<fetch_vars, ts_file, store_file, csv_file, report,
                 processed_reviews>>
  /\ UNCHANGED <<returned, ext_vars>>

\* a slip: the watermarks are saved before the loop is through
SaveEnabled_early == running /\ pc = "loop"

\* where the script calls save_last_timestamps
SaveEnabled == running /\ pc = "save"

\* save_last_timestamps(new_timestamps)
SaveTimestamps ==
  /\ SaveEnabled
  /\ ts_file' = [exists |-> TRUE, data |-> new_timestamps]
  /\ pc' = "combine"
  /\ UNCHANGED <<running, games, gi, last_timestamps, new_timestamps,
                 reviews_data>>
  /\ UNCHANGED <<fetch_vars, batch_file, store_file, csv_file, report,
                 processed_reviews>>
  /\ UNCHANGED <<returned, ext_vars>>

\* combine_reviews_to_jsonl() as the script calls it: an exception ends the run
RunCombine ==
  /\ running /\ pc = "combine"
  /\ LET r == CombineResult(store_file, batch_file)
     IN /\ WithinStoreBound(r.store)
        /\ store_file' = r.store
        /\ report' = r.report
        /\ IF r.report \in {"combine_json_error", "combine_min_error"}
           THEN RunOver
           ELSE /\ pc' = "convert"
                /\ UNCHANGED <<running, games, gi, last_timestamps,
                               new_timestamps, reviews_data>>
  /\ UNCHANGED <<fetch_vars, ts_file, batch_file, csv_file, processed_reviews>>
  /\ UNCHANGED <<returned, ext_vars>>

\* convert_jsonl_to_csv() as the script calls it; the script ends after it
RunConvert ==
  /\ running /\ pc = "convert"
  /\ LET r == ConvertResult(store_file, csv_file)
     IN /\ csv_file' = r.csv
        /\ report' = r.report
  /\ RunOver
  /\ UNCHANGED <<fetch_vars, ts_file, batch_file, store_file, processed_reviews>>
  /\ UNCHANGED <<returned, ext_vars>>

\* combine_reviews_to_jsonl.py run on its own
CombineMain ==
  /\ ~running
  /\ LET r == CombineResult(store_file, batch_file)
     IN /\ WithinStoreBound(r.store)
        /\ store_file' = r.store
        /\ report' = r.report
  /\ UNCHANGED <<run_vars, fetch_vars, ts_file, batch_file, csv_file,
                 processed_reviews>>
  /\ UNCHANGED <<returned, ext_vars>>

\* convert_jsonl_to_csv.py run on its own
ConvertMain ==
  /\ ~running
  /\ LET r == ConvertResult(store_file, csv_file)
     IN /\ csv_file' = r.csv
        /\ report' = r.report
  /\ UNCHANGED <<run_vars, fetch_vars, ts_file, batch_file, store_file,
                 processed_reviews>>
  /\ UNCHANGED <<returned, ext_vars>>

\* sentiment_analysis_vader.py run on its own
AnalyzeMain ==
  /\ ~running
  /\ LET r == AnalyzeResult(store_file, processed_reviews)
     IN /\ processed_reviews' = r.processed
        /\ report' = r.report
  /\ UNCHANGED <<run_vars, fetch_vars, file_vars>>
  /\ UNCHANGED <<returned, ext_vars>>

\* the process is terminated from outside while the script runs
Kill ==
  /\ running
  /\ RunOver
  /\ NoFrame("idle")
  /\ report' = "killed"
  /\ UNCHANGED <<file_vars, processed_reviews>>
  /\ UNCHANGED <<returned, ext_vars>>

\* midnight: datetime.now().strftime('%Y%m%d') names a new day, for which no
\* batch file exists yet
DayRollover ==
  /\ batch_file.exists
  /\ batch_file' = NoFile
  /\ UNCHANGED <<run_vars, fetch_vars, ts_file, store_file, csv_file, report,
                 processed_reviews>>
  /\ UNCHANGED <<returned, ext_vars>>

\* nothing runs; no csv yet, nothing printed yet
InitIdle ==
  /\ running = FALSE
  /\ pc = "stopped"
  /\ games = <<>>
  /\ gi = 0
  /\ last_timestamps = <<>>
  /\ new_timestamps = <<>>
  /\ reviews_data = <<>>
  /\ fpc = "idle"
  /\ max_reviews = 0
  /\ last_timestamp = None
  /\ all_reviews = <<>>
  /\ cursor = "*"
  /\ max_timestamp = 0
  /\ data = NoData
  /\ requests = 0
  /\ ret = NoRet
  /\ csv_file = NoFile
  /\ report = ""
  /\ processed_reviews = <<>>
  /\ returned = {}

InitFiles == InitIdle /\ InitExt

\* a fresh checkout: no watermarks, no batch, no store, nothing running
Init ==
  /\ running = FALSE
  /\ pc = "stopped"
  /\ games = <<>>
  /\ gi = 0
  /\ last_timestamps = <<>>
  /\ new_timestamps = <<>>
  /\ reviews_data = <<>>
  /\ fpc = "idle"
  /\ max_reviews = 0
  /\ last_timestamp = None
  /\ all_reviews = <<>>
  /\ cursor = "*"
  /\ max_timestamp = 0
  /\ data = NoData
  /\ requests = 0
  /\ ret = NoRet
  /\ ts_file = NoFile
  /\ batch_file = NoFile
  /\ store_file = NoFile
  /\ csv_file = NoFile
  /\ report = ""
  /\ processed_reviews = <<>>
  /\ returned = {}
  /\ InitExt

\* the whole pipeline over a one-title catalog: the script, run again and
\* again, ended from outside at any point, the stand-alone scripts between
\* runs, and midnight at any point
Next ==
  \/ RunStartSingle
  \/ GameLoopCall
  \/ FetchPage
  \/ FetchRaise
  \/ FetchReturn
  \/ GameLoopStore
  \/ WriteBatch
  \/ SaveTimestamps
  \/ RunCombine
  \/ RunConvert
  \/ CombineMain
  \/ ConvertMain
  \/ Kill
  \/ DayRollover

Spec == Init /\ [][Next]_vars

\* the watermark files earlier runs can have left: none, or a map that
\* holds a watermark (0 when its fetch saw no review) for the titles of the
\* last catalog
TimestampFiles ==
  {[exists |-> TRUE, data |-> m] :
     m \in UNION {[{Str(t) : t \in T} -> 0..MaxTs] : T \in SUBSET Titles}}
    \cup {NoFile}

\* before a run: any watermark file, nothing running
InitCrawl ==
  /\ InitFiles
  /\ ts_file \in TimestampFiles
  /\ batch_file = NoFile
  /\ store_file = NoFile

\* the crawl: one run of the script over any catalog, from its start to
\* save_last_timestamps, ended from outside at any point up to there
NextCrawl ==
  \/ RunStartOnce
  \/ GameLoopCall
  \/ FetchPage
  \/ FetchRaise
  \/ FetchReturn
  \/ GameLoopStore
  \/ WriteBatch
  \/ SaveTimestamps
  \/ Kill

SpecCrawl == InitCrawl /\ [][NextCrawl]_vars

(***************************************************************************)
(* The stand-alone scripts over a store and a batch                        *)
(***************************************************************************)
\* the batch files the run can write: one entry per game of a catalog
Batches ==
  {b \in SeqsUpTo([appid : Titles, reviews : SeqsUpTo(Reviews, MaxPage)],
                  Cardinality(Titles)) :
     \A i, j \in DOMAIN b : i # j => b[i].appid # b[j].appid}

\* the stores combine_reviews_to_jsonl can have written: one line per appid,
\* ascending
WrittenStores ==
  {[exists |-> TRUE, data |-> DumpLines(dict)] :
     dict \in UNION {[T -> SeqsUpTo(Reviews, MaxStored)] : T \in SUBSET Titles}}

InitCombine ==
  /\ InitFiles
  /\ ts_file = NoFile
  /\ store_file \in WrittenStores \cup {NoFile}
  /\ batch_file \in {[exists |-> TRUE, data |-> b] : b \in Batches} \cup {NoFile}

NextCombine == CombineMain \/ DayRollover

SpecCombine == InitCombine /\ [][NextCombine]_vars

\* convert_jsonl_to_csv.py run on its own on a store the consolidation wrote
NextConvert == CombineMain \/ ConvertMain

SpecConvert == InitCombine /\ [][NextConvert]_vars

\* the lines a store handed to a reader can hold: lines as written, or lines
\* json.loads rejects (a write that was cut short, an edit by hand)
StoreLines ==
  {Line(t, r) : t \in Titles, r \in SeqsUpTo(StoredReviews, 1)} \cup {Malformed}

InitReaders ==
  /\ InitFiles
  /\ ts_file = NoFile
  /\ store_file \in {[exists |-> TRUE, data |-> l] : l \in SeqsUpTo(StoreLines, MaxLines)}
                      \cup {NoFile}
  /\ batch_file \in {[exists |-> TRUE, data |-> <<[appid |-> t, reviews |-> <<r>>]>>] :
                       t \in Titles, r \in StoredReviews}

NextReaders == CombineMain \/ ConvertMain \/ AnalyzeMain

SpecReaders == InitReaders /\ [][NextReaders]_vars

(***************************************************************************)
(* word_frequency_analysis.py and word_frequency_by_game.py                *)
(***************************************************************************)
\* most rows of reviews_with_sentiment.csv
MaxRows == 3
\* largest min_frequency a caller passes (5 and 3 in the two main())
MaxMinFrequency == 2
\* min_word_length both main() pass
min_word_length == 3

\* a word is the sequence of its characters
Fun == <<"f", "u", "n">>
FunShouted == <<"F", "U", "N", "!">>
Game == <<"g", "a", "m", "e">>
Year == <<"4", "0", "4">>
Ok == <<"o", "k">>

Digits == {"0", "1", "2", "3", "4", "5", "6", "7", "8", "9"}
Letters == {"a", "b", "c", "d", "e", "f", "g", "h", "i", "j", "k", "l", "m",
            "n", "o", "p", "q", "r", "s", "t", "u", "v", "w", "x", "y", "z"}

\* str.lower() on the characters of the model
LowerChar(c) ==
  CASE c = "F" -> "f" [] c = "U" -> "u" [] c = "N" -> "n" [] OTHER -> c

\* review_text.lower(), token by token
Lower(review) ==
  [i \in DOMAIN review |->
     [j \in DOMAIN review[i] |-> LowerChar(review[i][j])]]

\* re.sub(r'[^a-z0-9]', '', word)
KeepAlnum(c) == c \in Letters \cup Digits
Clean(word) == SelectSeq(word, KeepAlnum)

\* word.isdigit()
IsDigit(word) == word # <<>> /\ \A i \in DOMAIN word : word[i] \in Digits

\* the stop words of the vocabulary of the model: 'game' is a custom stop word
\* of both scripts
stop_words == {Game}

\* the test that lets a cleaned word through
Qualifies(word) ==
  ~(Len(word) < min_word_length \/ word \in stop_words \/ IsDigit(word))

\* the cleaned words of a review that pass the test, in order
CleanAll(words) == [i \in DOMAIN words |-> Clean(words[i])]
QualifyingWords(review) == SelectSeq(CleanAll(Lower(review)), Qualifies)

\* compound scores of the rows of the model, in units of 0.0001
Compounds == {4404, 0, 0 - 4404}

\* the reviews of the model, as the tokens word_tokenize finds in them: no
\* token, a word once, twice and three times in differing spellings, and
\* words the test drops
Texts ==
  {<<>>, <<Fun>>, <<FunShouted, Fun>>, <<Fun, FunShouted, Fun>>,
   <<Game, Fun, Year>>, <<Ok, Game>>}

\* the rows of reviews_with_sentiment.csv, as save_to_csv writes them (of the
\* columns, those the two scripts read)
Rows ==
  {[appid |-> a, review |-> t, sentiment_compound |-> c,
    sentiment_label |-> get_sentiment_label(c)] :
     a \in Titles, t \in Texts, c \in Compounds}

\* the defaultdict entries
ZeroStats ==
  [frequency |-> 0, total_compound |-> 0, appids |-> {},
   positive_count |-> 0, neutral_count |-> 0, negative_count |-> 0]
ZeroGameStats ==
  [frequency |-> 0, total_compound |-> 0,
   positive_count |-> 0, neutral_count |-> 0, negative_count |-> 0]

\* the if/elif/else on sentiment_label
CountLabel(stats, label) ==
  IF label = "positive" THEN [stats EXCEPT !.positive_count = @ + 1]
  ELSE IF label = "neutral" THEN [stats EXCEPT !.neutral_count = @ + 1]
  ELSE [stats EXCEPT !.negative_count = @ + 1]

\* the update of word_stats for one occurrence of a word
AddWord(stats, word, r) ==
  LET old == IF word \in DOMAIN stats THEN stats[word] ELSE ZeroStats
  IN Put(stats, word,
         CountLabel([old EXCEPT !.frequency = @ + 1,
                                !.total_compound = @ + r.sentiment_compound,
                                !.appids = @ \cup {r.appid}],
                    r.sentiment_label))

\* the update of word_game_stats for one unique word of a review
AddGameWord(stats, word, r) ==
  LET key == <<word, r.appid>>
      old == IF key \in DOMAIN stats THEN stats[key] ELSE ZeroGameStats
  IN Put(stats, key,
         CountLabel([old EXCEPT !.frequency = @ + 1,
                                !.total_compound = @ + r.sentiment_compound],
                    r.sentiment_label))

RECURSIVE AddWords(_, _, _)
AddWords(stats, words, r) ==
  IF words = <<>> THEN stats
  ELSE AddWords(AddWord(stats, Head(words), r), Tail(words), r)

RECURSIVE AddGameWords(_, _, _)
AddGameWords(stats, unique_words, r) ==
  IF unique_words = {} THEN stats
  ELSE LET word == CHOOSE w \in unique_words : TRUE
       IN AddGameWords(AddGameWord(stats, word, r), unique_words \ {word}, r)

\* the set a sequence of words makes
Unique(words) == {words[i] : i \in DOMAIN words}

RECURSIVE AddWordSet(_, _, _)
AddWordSet(stats, unique_words, r) ==
  IF unique_words = {} THEN stats
  ELSE LET word == CHOOSE w \in unique_words : TRUE
       IN AddWordSet(AddWord(stats, word, r), unique_words \ {word}, r)

\* a slip: each word of a review is counted once
ReviewWords_once(stats, r) ==
  AddWordSet(stats, Unique(QualifyingWords(r.review)), r)

\* the body of the loop of extract_word_frequencies: every occurrence counts
ReviewWords(stats, r) == AddWords(stats, QualifyingWords(r.review), r)

RECURSIVE AddGameWordSeq(_, _, _)
AddGameWordSeq(stats, words, r) ==
  IF words = <<>> THEN stats
  ELSE AddGameWordSeq(AddGameWord(stats, Head(words), r), Tail(words), r)

\* a slip: unique_words is a list, every occurrence is counted for the title
ReviewWordsByGame_every(stats, r) ==
  AddGameWordSeq(stats, QualifyingWords(r.review), r)

\* the body of the loop of extract_word_frequencies_by_game: the words of the
\* review go through the set unique_words first
ReviewWordsByGame(stats, r) ==
  AddGameWords(stats, Unique(QualifyingWords(r.review)), r)

\* the keys of sentiment_counts, in the order the dict literal inserts them
SentimentKeys == <<"positive", "neutral", "negative">>

sentiment_counts(stats) ==
  [positive |-> stats.positive_count, neutral |-> stats.neutral_count,
   negative |-> stats.negative_count]

\* a slip: a later key wins a tie
MaxKey_last(keys, counts) ==
  LET best[i \in 1..Len(keys)] ==
        IF i = 1 THEN keys[1]
        ELSE IF counts[keys[i]] >= counts[best[i - 1]] THEN keys[i]
             ELSE best[i - 1]
  IN best[Len(keys)]

\* max(keys, key=lambda x: counts[x]): an item replaces the best so far only
\* when its key is strictly larger
MaxKey(keys, counts) ==
  LET best[i \in 1..Len(keys)] ==
        IF i = 1 THEN keys[1]
        ELSE IF counts[keys[i]] > counts[best[i - 1]] THEN keys[i]
             ELSE best[i - 1]
  IN best[Len(keys)]

dominant_sentiment(stats) == MaxKey(SentimentKeys, sentiment_counts(stats))

\* round(total / freq, 4) in units of 0.0001: to the nearest, a half to even
RoundDiv(total, freq) ==
  LET q == total \div freq
      rest == total - q * freq
  IN IF 2 * rest < freq THEN q
     ELSE IF 2 * rest > freq THEN q + 1
     ELSE IF q % 2 = 0 THEN q ELSE q + 1

\* a row of word_frequencies.csv
WordRow(word, stats) ==
  [word |-> word, frequency |-> stats.frequency,
   avg_sentiment_compound |-> RoundDiv(stats.total_compound, stats.frequency),
   positive_count |-> stats.positive_count,
   neutral_count |-> stats.neutral_count,
   negative_count |-> stats.negative_count,
   dominant_sentiment |-> dominant_sentiment(stats),
   unique_games |-> Cardinality(stats.appids)]

\* a row of word_frequencies_by_game.csv
GameWordRow(key, stats) ==
  [appid |-> key[2], word |-> key[1], frequency |-> stats.frequency,
   avg_sentiment_compound |-> RoundDiv(stats.total_compound, stats.frequency),
   positive_count |-> stats.positive_count,
   neutral_count |-> stats.neutral_count,
   negative_count |-> stats.negative_count,
   dominant_sentiment |-> dominant_sentiment(stats)]

\* the keys that pass the filter on min_frequency
Frequent(stats, least) == {k \in DOMAIN stats : ~(stats[k].frequency < least)}

\* word_df.sort_values('frequency', ascending=False)
SortedWords(stats, keys) ==
  CHOOSE s \in [1..Cardinality(keys) -> keys] :
    /\ \A k \in keys : \E i \in DOMAIN s : s[i] = k
    /\ \A i, j \in DOMAIN s :
         i < j => stats[s[i]].frequency >= stats[s[j]].frequency

\* word_df.sort_values(['appid', 'frequency'], ascending=[True, False])
SortedGameWords(stats, keys) ==
  CHOOSE s \in [1..Cardinality(keys) -> keys] :
    /\ \A k \in keys : \E i \in DOMAIN s : s[i] = k
    /\ \A i, j \in DOMAIN s :
         i < j => \/ s[i][2] < s[j][2]
                  \/ /\ s[i][2] = s[j][2]
                     /\ stats[s[i]].frequency >= stats[s[j]].frequency

\* df.iterrows(): one more row of the csv goes through the loop body
ReadRow ==
  /\ mode = "global"
  /\ report = ""
  /\ rows_done < MaxRows
  /\ \E r \in Rows :
       /\ row' = r
       /\ word_stats' = ReviewWords(word_stats, r)
  /\ rows_done' = rows_done + 1
  /\ UNCHANGED <<run_vars, fetch_vars, file_vars, report, processed_reviews,
                 returned, source, label_vars, mode, min_frequency,
                 word_game_stats, word_df>>

ReadRowByGame ==
  /\ mode = "by_game"
  /\ report = ""
  /\ rows_done < MaxRows
  /\ \E r \in Rows :
       /\ row' = r
       /\ word_game_stats' = ReviewWordsByGame(word_game_stats, r)
  /\ rows_done' = rows_done + 1
  /\ UNCHANGED <<run_vars, fetch_vars, file_vars, report, processed_reviews,
                 returned, source, label_vars, mode, min_frequency,
                 word_stats, word_df>>

\* after the loop of extract_word_frequencies: with no word left, the frame
\* has no column 'frequency' and sort_values raises before anything is saved
WriteWords ==
  /\ mode = "global"
  /\ report = ""
  /\ LET keys == Frequent(word_stats, min_frequency)
         order == SortedWords(word_stats, keys)
     IN IF keys = {}
        THEN /\ report' = "words_key_error"
             /\ UNCHANGED word_df
        ELSE /\ report' = "words_saved"
             /\ word_df' = [i \in DOMAIN order |->
                              WordRow(order[i], word_stats[order[i]])]
  /\ UNCHANGED <<run_vars, fetch_vars, file_vars, processed_reviews,
                 returned, source, label_vars, mode, min_frequency,
                 rows_done, row, word_stats, word_game_stats>>

WriteWordsByGame ==
  /\ mode = "by_game"
  /\ report = ""
  /\ LET keys == Frequent(word_game_stats, min_frequency)
         order == SortedGameWords(word_game_stats, keys)
     IN IF keys = {}
        THEN /\ report' = "words_key_error"
             /\ UNCHANGED word_df
        ELSE /\ report' = "words_saved"
             /\ word_df' = [i \in DOMAIN order |->
                              GameWordRow(order[i], word_game_stats[order[i]])]
  /\ UNCHANGED <<run_vars, fetch_vars, file_vars, processed_reviews,
                 returned, source, label_vars, mode, min_frequency,
                 rows_done, row, word_stats, word_game_stats>>

\* one of the two scripts starts on a reviews_with_sentiment.csv
InitWords ==
  /\ InitIdle
  /\ NoSource
  /\ NoLabel
  /\ rows_done = 0
  /\ row = NoRow
  /\ word_stats = <<>>
  /\ word_game_stats = <<>>
  /\ word_df = <<>>
  /\ ts_file = NoFile
  /\ batch_file = NoFile
  /\ store_file = NoFile
  /\ mode \in {"global", "by_game"}
  /\ min_frequency \in 1..MaxMinFrequency

NextWords == ReadRow \/ ReadRowByGame \/ WriteWords \/ WriteWordsByGame

SpecWords == InitWords /\ [][NextWords]_vars

(***************************************************************************)
(* get_sentiment_label on its own                                          *)
(***************************************************************************)
\* the compound score runs from -1 to 1, in units of 0.0001
MaxCompound == 10000

\* get_sentiment_label is called with a compound score
LabelScore ==
  /\ sentiment_label = ""
  /\ sentiment_label' = get_sentiment_label(compound)
  /\ UNCHANGED <<run_vars, fetch_vars, file_vars, report, processed_reviews,
                 returned, source, compound, word_vars>>

InitLabel ==
  /\ InitIdle
  /\ ts_file = NoFile
  /\ batch_file = NoFile
  /\ store_file = NoFile
  /\ NoSource
  /\ NoWords
  /\ compound \in (0 - MaxCompound)..MaxCompound
  /\ sentiment_label = ""

NextLabel == LabelScore

SpecLabel == InitLabel /\ [][NextLabel]_vars

(***************************************************************************)
(* Claims about get_game_reviews (checked under SpecFetch)                 *)
(***************************************************************************)
\* C3: the watermark get_game_reviews returns is >= the watermark it was given
\* (when one was given) and >= timestamp_created of every returned review.
C3_WatermarkBoundsResult ==
  fpc = "returned" =>
    /\ last_timestamp # None => ret.max_timestamp >= last_timestamp[1]
    /\ \A i \in DOMAIN ret.reviews :
         ret.max_timestamp >= ret.reviews[i].timestamp_created

\* a call with a watermark returned two pages of newer reviews
C3_Witness ==
  /\ fpc = "returned"
  /\ Truthy(last_timestamp)
  /\ requests >= 2
  /\ Len(ret.reviews) >= 2
  /\ ret.max_timestamp > last_timestamp[1]

\* C4: get_game_reviews returns at most max_reviews reviews, whatever the
\* pages, the cap and the watermark.
C4_AtMostCap == fpc = "returned" => Len(ret.reviews) <= max_reviews

\* the last page pushed the accumulated list over the cap and it was cut
C4_Witness ==
  /\ fpc = "returned"
  /\ Len(all_reviews) > max_reviews
  /\ max_reviews > 0
  /\ Len(ret.reviews) = max_reviews

\* no review of the page is strictly newer than the watermark
NothingNewer(reviews, last) ==
  \A i \in DOMAIN reviews : reviews[i].timestamp_created <= last

\* C5: with a watermark, a page without a review strictly newer than the
\* watermark ends the loop: nothing of it is accepted, no further page is
\* requested, and the call returns exactly what the earlier pages gave.
C5_StopsAtFirstStalePage ==
  [][ /\ ( /\ fpc = "loop"
           /\ requests' = requests + 1
           /\ last_timestamp # None
           /\ NothingNewer(data'.reviews, last_timestamp[1]) )
         => (fpc' = "done" /\ all_reviews' = all_reviews)
      /\ ( /\ fpc = "done"
           /\ last_timestamp # None
           /\ NothingNewer(data.reviews, last_timestamp[1]) )
         => ( /\ requests' = requests
              /\ fpc' = "returned"
              /\ ret'.reviews = all_reviews ) ]_vars

\* an earlier page gave newer reviews, then a non-empty page gave none
C5_Witness ==
  /\ fpc = "returned"
  /\ last_timestamp # None
  /\ requests >= 2
  /\ data.success
  /\ data.reviews # <<>>
  /\ data.cursor = "c"
  /\ NothingNewer(data.reviews, last_timestamp[1])
  /\ ret.reviews # <<>>
  /\ ret.reviews = all_reviews

\* C16: get_game_reviews sends at most cap page requests whatever the source
\* answers, a cursor that never becomes a sentinel included: every iteration
\* that does not stop the loop adds at least one review, so the list holds
\* at least as many reviews as requests were sent while the loop goes on,
\* and no request is sent once the list holds cap reviews
C16_AtMostCapRequests ==
  /\ [](requests <= max_reviews)
  /\ [](fpc = "loop" => Len(all_reviews) >= requests)
  /\ [][requests' > requests =>
          /\ requests' = requests + 1
          /\ Len(all_reviews) < max_reviews
          /\ fpc' = "loop" => Len(all_reviews') > Len(all_reviews)]_vars

\* the call returned after cap requests, the cursor still no sentinel
C16_Witness ==
  /\ fpc = "returned"
  /\ max_reviews = MaxCap
  /\ requests = MaxCap
  /\ cursor = "c"

(***************************************************************************)
(* Claims about get_game_reviews against a newest-first source (checked    *)
(* under SpecSource)                                                       *)
(***************************************************************************)
\* how many reviews of a list have the timestamp_created t
CountAt(reviews, t) ==
  Cardinality({i \in DOMAIN reviews : reviews[i].timestamp_created = t})

\* C18: the incremental fetch skips nothing: after get_game_reviews returns,
\* every review of the source with a timestamp_created above the input
\* watermark and at most the returned watermark is in the returned list,
\* also when the cap is reached.  (Refuted: the cap cuts the list short while
\* the returned watermark is that of the newest review.)
C18_NothingSkippedBelowWatermark ==
  fpc = "returned" =>
    \A t \in 1..MaxTs :
      (t > OrZero(last_timestamp) /\ t <= ret.max_timestamp) =>
        CountAt(ret.reviews, t) >= CountAt(source, t)

(***************************************************************************)
(* Claims about the crawl (checked under SpecCrawl)                        *)
(***************************************************************************)
\* C1: a saved watermark never decreases: a title with a persisted watermark
\* w keeps a persisted watermark >= w, whatever the catalog of the run is and
\* whatever the fetch returns.  (Refuted: the map is rebuilt from the
\* catalog of the run alone.)
C1_WatermarkNeverDecreases ==
  [][ \A k \in DOMAIN ts_file.data :
        /\ k \in DOMAIN ts_file'.data
        /\ ts_file'.data[k] >= ts_file.data[k] ]_vars

\* the step in which requests.get or r.json raises inside get_game_reviews
PageRequestFails == fpc = "loop" /\ fpc' = "raised"

\* C2: a failed page request does not abort the run: the run is still going,
\* with the same catalog and at the same title, after it.  (Refuted: nothing
\* catches the exception.)
C2_PageFailureDoesNotAbortRun ==
  [][ PageRequestFails =>
        /\ running'
        /\ pc' = "fetching"
        /\ games' = games
        /\ gi' = gi
        /\ reviews_data' = reviews_data ]_vars

\* C6: the watermark map is written only when the loop has fetched every
\* title of the catalog; while the run is in the loop, and in any step that
\* ends the run there, the persisted map is the one loaded at the start.
C6_SaveOnlyAfterLoop ==
  [][ /\ ts_file' # ts_file =>
           /\ running /\ pc = "save"
           /\ gi = Len(games)
           /\ Len(reviews_data) = Len(games)
           /\ \A i \in DOMAIN games : Str(games[i]) \in DOMAIN new_timestamps
      /\ (running /\ pc \in {"loop", "fetching"}) =>
           /\ ts_file' = ts_file
           /\ ts_file.data = last_timestamps ]_vars

\* a run over two titles has saved a map that differs from the loaded one
C6_Witness ==
  /\ running /\ pc = "combine"
  /\ Len(games) = 2
  /\ last_timestamps # <<>>
  /\ ts_file.data = new_timestamps
  /\ ts_file.data # last_timestamps

(***************************************************************************)
(* Claims about the consolidation (checked under SpecCombine)              *)
(***************************************************************************)
\* the appids that have a line in the store
StoreTitles(store) == {store.data[i].appid : i \in DOMAIN store.data}

\* the review sequence the store holds for a title (empty when it has no line)
StoreReviewsOf(store, t) ==
  IF t \in StoreTitles(store)
  THEN LET i == CHOOSE i \in DOMAIN store.data : store.data[i].appid = t
       IN store.data[i].reviews
  ELSE <<>>

\* the appids that have an entry in the batch
BatchTitles(batch) == {batch.data[i].appid : i \in DOMAIN batch.data}

\* the reviews the batch holds for a title, in the order of the batch
RECURSIVE EntriesOf(_, _)
EntriesOf(entries, t) ==
  IF entries = <<>> THEN <<>>
  ELSE (IF Head(entries).appid = t THEN Head(entries).reviews ELSE <<>>)
         \o EntriesOf(Tail(entries), t)

BatchReviewsOf(batch, t) == EntriesOf(batch.data, t)

\* C7: for every title of today's batch, consolidation stores the title's
\* existing review sequence followed by the batch's reviews in their order (a
\* title new to the store starts empty), without deduplication; on an empty
\* store a batch of N reviews for a title leaves exactly N.
C7_AppendsBatchInOrder ==
  [][ (CombineMain /\ batch_file.exists) =>
        \A t \in BatchTitles(batch_file) :
          /\ t \in StoreTitles(store_file')
          /\ StoreReviewsOf(store_file', t) =
               StoreReviewsOf(store_file, t) \o BatchReviewsOf(batch_file, t)
          /\ ~store_file.exists =>
               Len(StoreReviewsOf(store_file', t)) =
                 Len(BatchReviewsOf(batch_file, t)) ]_vars

\* a consolidation has put a batch review behind one the title already had,
\* and both are the same review
C7_Witness ==
  /\ report = "combined"
  /\ batch_file.exists
  /\ \E t \in BatchTitles(batch_file) :
       LET stored == StoreReviewsOf(store_file, t)
           new == BatchReviewsOf(batch_file, t)
       IN /\ new # <<>>
          /\ Len(stored) > Len(new)
          /\ SubSeq(stored, Len(stored) - Len(new) + 1, Len(stored)) = new
          /\ stored[1] = new[1]

\* the store is what one consolidation of the batch into no store leaves
ConsolidatedOnce(store, batch) ==
  /\ store.exists
  /\ StoreTitles(store) = BatchTitles(batch)
  /\ \A t \in BatchTitles(batch) :
       StoreReviewsOf(store, t) = BatchReviewsOf(batch, t)

\* C8: consolidation is not idempotent: consolidating the same batch a second
\* time, after a first consolidation into an empty store, leaves every title
\* with each batch review twice, twice the count of the first consolidation.
C8_SecondConsolidationDoubles ==
  [][ (CombineMain /\ batch_file.exists
         /\ ConsolidatedOnce(store_file, batch_file)) =>
        \A t \in BatchTitles(batch_file) :
          /\ StoreReviewsOf(store_file', t) =
               BatchReviewsOf(batch_file, t) \o BatchReviewsOf(batch_file, t)
          /\ Len(StoreReviewsOf(store_file', t)) =
               2 * Len(StoreReviewsOf(store_file, t)) ]_vars

\* a batch with reviews has been consolidated twice
C8_Witness ==
  /\ report = "combined"
  /\ batch_file.exists
  /\ store_file.exists
  /\ StoreTitles(store_file) = BatchTitles(batch_file)
  /\ \E t \in BatchTitles(batch_file) : BatchReviewsOf(batch_file, t) # <<>>
  /\ \A t \in BatchTitles(batch_file) :
       StoreReviewsOf(store_file, t) =
         BatchReviewsOf(batch_file, t) \o BatchReviewsOf(batch_file, t)

\* C10: without today's batch file combine_reviews_to_jsonl returns without
\* raising and leaves the store as it was: not rewritten, not created.
C10_NoBatchLeavesStore ==
  [][ (CombineMain /\ ~batch_file.exists) =>
        /\ store_file' = store_file
        /\ report' = "no_batch" ]_vars

\* consolidation was skipped over a store that holds reviews
C10_Witness ==
  /\ report = "no_batch"
  /\ ~batch_file.exists
  /\ store_file.exists
  /\ \E i \in DOMAIN store_file.data : store_file.data[i].reviews # <<>>

(***************************************************************************)
(* Claims about the readers of the store (checked under SpecReaders)       *)
(***************************************************************************)
\* the store holds a line that is not valid JSON
HasMalformedLine(store) == \E i \in DOMAIN store.data : ~store.data[i].valid

\* the valid lines of a store, in order
ValidLines(store) == SelectSeq(store.data, LAMBDA l : l.valid)

\* C9: a malformed line of the store is reported and skipped by every reader
\* (combine_reviews_to_jsonl, convert_jsonl_to_csv, analyze_reviews): the
\* reader does not abort and processes all other lines.  (Refuted: only
\* analyze_reviews catches the decode error.)
C9_MalformedLineSkipped ==
  [][ HasMalformedLine(store_file) =>
        /\ CombineMain =>
             /\ report' = "combined"
             /\ \A i \in DOMAIN store_file.data :
                  store_file.data[i].valid =>
                    store_file.data[i].appid \in StoreTitles(store_file')
        /\ ConvertMain =>
             /\ report' = "converted"
             /\ csv_file'.data = RowsOf(ValidLines(store_file), <<>>).rows
        /\ AnalyzeMain =>
             /\ report' = "analyzed"
             /\ processed_reviews' = ProcessLines(ValidLines(store_file)) ]_vars

\* what C9 says of analyze_reviews alone, which does hold
C9_AnalyzeSkipsMalformed ==
  [][ (HasMalformedLine(store_file) /\ AnalyzeMain) =>
        /\ report' = "analyzed"
        /\ processed_reviews' = ProcessLines(ValidLines(store_file)) ]_vars


(***************************************************************************)
(* Claims about the word-frequency scripts (checked under SpecWords)       *)
(***************************************************************************)
\* how often a word is among the qualifying tokens of the review of a row
Occurrences(r, word) ==
  LET words == QualifyingWords(r.review)
  IN Cardinality({i \in DOMAIN words : words[i] = word})

\* the entry of a key, absent keys read as the defaultdict reads them
GameStatsOf(stats, key) ==
  IF key \in DOMAIN stats THEN stats[key] ELSE ZeroGameStats
StatsOf(stats, word) ==
  IF word \in DOMAIN stats THEN stats[word] ELSE ZeroStats

LabelCount(stats, label) ==
  CASE label = "positive" -> stats.positive_count
    [] label = "neutral" -> stats.neutral_count
    [] OTHER -> stats.negative_count

Labels == {"positive", "neutral", "negative"}

\* an entry grew by d occurrences of a review with the compound score and
\* the label of row r
GrewBy(old, new, d, r) ==
  /\ new.frequency = old.frequency + d
  /\ new.total_compound = old.total_compound + d * r.sentiment_compound
  /\ \A l \in Labels :
       LabelCount(new, l) =
         LabelCount(old, l) + (IF l = r.sentiment_label THEN d ELSE 0)

\* C11: in per-title mode one review adds 1 to the frequency of a (word,
\* title) key when the word is among its qualifying tokens, however often,
\* and 0 otherwise; it adds its compound score and its label count once
C11_ReviewCountsOncePerTitle ==
  [][(mode = "by_game" /\ rows_done' = rows_done + 1) =>
       \A key \in DOMAIN word_game_stats \cup DOMAIN word_game_stats'
                  \cup {<<w, row'.appid>> : w \in {Fun, Game, Year, Ok}} :
         GrewBy(GameStatsOf(word_game_stats, key),
                GameStatsOf(word_game_stats', key),
                IF key[2] = row'.appid /\ Occurrences(row', key[1]) > 0
                THEN 1 ELSE 0,
                row')]_vars

\* the first review read has a word three times, and its key stands at 1
C11_Witness ==
  /\ mode = "by_game"
  /\ rows_done = 1
  /\ Occurrences(row, Fun) = 3
  /\ word_game_stats[<<Fun, row.appid>>].frequency = 1

\* C12: in global mode a review in which a word is k times among the
\* qualifying tokens adds k to its frequency, k times its compound score to
\* the compound total and k to the count of its label
C12_EveryOccurrenceCounts ==
  [][(mode = "global" /\ rows_done' = rows_done + 1) =>
       \A word \in DOMAIN word_stats \cup DOMAIN word_stats'
                   \cup {Fun, Game, Year, Ok} :
         GrewBy(StatsOf(word_stats, word), StatsOf(word_stats', word),
                Occurrences(row', word), row')]_vars

\* the first review read has a word three times, and the word stands at 3
C12_Witness ==
  /\ mode = "global"
  /\ rows_done = 1
  /\ Occurrences(row, Fun) = 3
  /\ word_stats[Fun].frequency = 3

\* the place of a label in the order positive, neutral, negative
Rank(label) ==
  CASE label = "positive" -> 1 [] label = "neutral" -> 2 [] OTHER -> 3

\* C15: in both modes the dominant label of a saved row has the largest of
\* the three counts, and among labels with that count it is the first in
\* the order positive, neutral, negative
C15_DominantIsFirstLargest ==
  report = "words_saved" =>
    \A i \in DOMAIN word_df :
      \A l \in Labels :
        /\ LabelCount(word_df[i], word_df[i].dominant_sentiment)
             >= LabelCount(word_df[i], l)
        /\ LabelCount(word_df[i], l)
             = LabelCount(word_df[i], word_df[i].dominant_sentiment)
           => Rank(word_df[i].dominant_sentiment) <= Rank(l)

\* a saved row of the per-title mode where neutral and negative tie above
\* positive, and neutral is dominant
C15_Witness ==
  /\ report = "words_saved"
  /\ mode = "by_game"
  /\ \E i \in DOMAIN word_df :
       /\ word_df[i].neutral_count = word_df[i].negative_count
       /\ word_df[i].negative_count > word_df[i].positive_count
       /\ word_df[i].dominant_sentiment = "neutral"

(***************************************************************************)
(* Claims about get_sentiment_label (checked under SpecLabel)              *)
(***************************************************************************)
\* C13: a compound score gets exactly one of the three labels: positive
\* exactly when it is at least 0.05, negative exactly when it is at most
\* -0.05, neutral exactly when it lies strictly between; so 0.05 is
\* positive, -0.05 negative, 0.04 and -0.04 neutral
C13_LabelByThreshold ==
  sentiment_label # "" =>
    /\ sentiment_label \in {"positive", "neutral", "negative"}
    /\ sentiment_label = "positive" <=> compound >= 500
    /\ sentiment_label = "negative" <=> compound <= 0 - 500
    /\ sentiment_label = "neutral" <=> (0 - 500 < compound /\ compound < 500)
    /\ compound \in {400, 0 - 400} => sentiment_label = "neutral"

\* a score of exactly 0.05 has been labelled positive
C13_Witness ==
  /\ compound = 500
  /\ sentiment_label = "positive"

(***************************************************************************)
(* Claims about the conversion to csv (checked under SpecConvert)          *)
(***************************************************************************)
\* the reviews of the first n title records of the store, counted
RECURSIVE ReviewsBefore(_, _)
ReviewsBefore(lines, n) ==
  IF n = 0 THEN 0 ELSE ReviewsBefore(lines, n - 1) + Len(lines[n].reviews)

\* C14: the conversion writes exactly one data row per review and filters
\* nothing: the csv has as many rows as the title records of the store hold
\* reviews in all, and the row of the j-th review of the i-th record comes
\* right after the rows of all earlier records and reviews
C14_OneRowPerReview ==
  report = "converted" =>
    LET lines == store_file.data
        rows == csv_file.data
    IN /\ Len(rows) = ReviewsBefore(lines, Len(lines))
       /\ \A i \in DOMAIN lines :
            \A j \in DOMAIN lines[i].reviews :
              LET k == ReviewsBefore(lines, i - 1) + j
              IN /\ k \in DOMAIN rows
                 /\ rows[k].appid = lines[i].appid
                 /\ rows[k].timestamp_created
                      = lines[i].reviews[j].timestamp_created
                 /\ rows[k].review = lines[i].reviews[j].review

\* a store of two title records, one of them with two reviews, is converted
C14_Witness ==
  /\ report = "converted"
  /\ Len(store_file.data) = 2
  /\ \E i \in DOMAIN store_file.data : Len(store_file.data[i].reviews) >= 2
  /\ Len(csv_file.data) >= 3

(***************************************************************************)
(* Claims about runs and what they leave on disk (checked under Spec)      *)
(***************************************************************************)
\* the store holds the review in the record of the title
InStore(appid, review) ==
  /\ store_file.exists
  /\ \E i \in DOMAIN store_file.data :
       /\ store_file.data[i].valid
       /\ store_file.data[i].appid = appid
       /\ \E j \in DOMAIN store_file.data[i].reviews :
            store_file.data[i].reviews[j] = review

\* the persisted watermark of the title covers the review
UnderWatermark(appid, review) ==
  /\ ts_file.exists
  /\ Str(appid) \in DOMAIN ts_file.data
  /\ review.timestamp_created <= ts_file.data[Str(appid)]

\* C17: the persisted watermark never runs ahead of the store: whenever no
\* run is going, after complete runs and after runs that stopped between two
\* steps, every review a fetch returned for a title whose timestamp_created
\* is at most the persisted watermark of the title is in the store record of
\* the title.  (Refuted: the watermarks are saved before the consolidation,
\* which can be cut off or find no batch of its day.)
C17_WatermarkNotAheadOfStore ==
  ~running =>
    \A p \in returned : UnderWatermark(p[1], p[2]) => InStore(p[1], p[2])

====
